---- MODULE Spec2Model ----
(***************************************************************************)
(* A model of the UV-sphere generator of TestMetal:                        *)
(*   create_sphere_fbx.py  tessellates a sphere and writes an FBX text     *)
(*                         document to assets/UnitSphere.fbx;              *)
(*   generate_sphere.py    tessellates the same sphere and prints the      *)
(*                         three arrays to standard output.                *)
(* Floating-point numbers are fixed-point integers, Scale units per 1.0.   *)
(***************************************************************************)
EXTENDS Integers, Sequences, FiniteSets, TLC

\* ------------------------------------------------------------------ bounds

\* Largest latitude_segments / longitude_segments / radius the inputs take.
MaxLat == 3
MaxLon == 4
MaxRadius == 2

\* Fixed-point resolution of a float: 1.0 is Scale.
Scale == 100 * 100

\* Smallest value of each parameter (non-positive values are the invalid ones).
MinParam == 0 - 1

Radii == {r * Scale : r \in MinParam..MaxRadius}
LatSegments == MinParam..MaxLat
LonSegments == MinParam..MaxLon

\* ------------------------------------------------------------ float helpers

\* a * b of two fixed-point numbers, rounded toward zero.
FMul(a, b) ==
    IF (a >= 0) = (b >= 0)
    THEN ((IF a >= 0 THEN a ELSE -a) * (IF b >= 0 THEN b ELSE -b)) \div Scale
    ELSE -(((IF a >= 0 THEN a ELSE -a) * (IF b >= 0 THEN b ELSE -b)) \div Scale)

\* a / b of two fixed-point numbers, b # 0, rounded toward zero.
FDiv(a, b) ==
    IF (a >= 0) = (b >= 0)
    THEN ((IF a >= 0 THEN a ELSE -a) * Scale) \div (IF b >= 0 THEN b ELSE -b)
    ELSE -(((IF a >= 0 THEN a ELSE -a) * Scale) \div (IF b >= 0 THEN b ELSE -b))

\* math.sin of 0, 3, 6, ..., 90 degrees, in fixed point.
SinTable ==
    << 0, 523, 1045, 1564, 2079, 2588, 3090, 3584, 4067, 4540, 5000,
       5446, 5878, 6293, 6691, 7071, 7431, 7771, 8090, 8387, 8660,
       8910, 9135, 9336, 9511, 9659, 9781, 9877, 9945, 9986, 10000 >>

\* math.sin of an angle given in degrees, 0 <= deg <= 360 (the angles
\* lat*pi/latitude_segments and lon*2*pi/longitude_segments are whole
\* multiples of 3 degrees for every segment count up to 6).
Sin(deg) ==
    LET d == deg % 360
        q == IF d <= 90 THEN d
             ELSE IF d <= 180 THEN 180 - d
             ELSE IF d <= 270 THEN d - 180
             ELSE 360 - d
        v == SinTable[(q \div 3) + 1]
    IN  IF d <= 180 THEN v ELSE -v

\* math.cos of an angle given in degrees.
Cos(deg) == Sin(deg + 90)

RECURSIVE SqrtSearch(_, _, _)
SqrtSearch(n, lo, hi) ==
    IF lo >= hi THEN lo
    ELSE LET mid == (lo + hi + 1) \div 2
         IN  IF mid * mid <= n THEN SqrtSearch(n, mid, hi)
             ELSE SqrtSearch(n, lo, mid - 1)

\* math.sqrt(x*x + y*y + z*z) of fixed-point x, y, z, as a fixed-point number.
Length(x, y, z) == SqrtSearch(x * x + y * y + z * z, 0, 4 * Scale)

\* ------------------------------------------------------------- tessellator

\* A faulty variant of LonVertices: range(longitude_segments), which leaves
\* out the seam column lon = longitude_segments.
RECURSIVE LonVerticesNoSeam(_, _, _, _)
LonVerticesNoSeam(radius, theta, longitude_segments, lon) ==
    IF lon >= longitude_segments THEN [raised |-> FALSE, out |-> <<>>]
    ELSE IF longitude_segments = 0 THEN [raised |-> TRUE, out |-> <<>>]
    ELSE LET phi == (lon * 360) \div longitude_segments
             x == FMul(FMul(radius, Cos(phi)), Sin(theta))
             y == FMul(radius, Cos(theta))
             z == FMul(FMul(radius, Sin(phi)), Sin(theta))
             rest == LonVerticesNoSeam(radius, theta, longitude_segments, lon + 1)
         IN  [raised |-> rest.raised, out |-> <<x, y, z>> \o rest.out]

\* The inner loop of the vertex pass from column lon on:
\*   for lon in range(longitude_segments + 1): vertices.extend([x, y, z])
\* It raises ZeroDivisionError at once when longitude_segments = 0.
RECURSIVE LonVertices(_, _, _, _)
LonVertices(radius, theta, longitude_segments, lon) ==
    IF lon >= longitude_segments + 1 THEN [raised |-> FALSE, out |-> <<>>]
    ELSE IF longitude_segments = 0 THEN [raised |-> TRUE, out |-> <<>>]
    ELSE LET phi == (lon * 360) \div longitude_segments
             x == FMul(FMul(radius, Cos(phi)), Sin(theta))
             y == FMul(radius, Cos(theta))
             z == FMul(FMul(radius, Sin(phi)), Sin(theta))
             rest == LonVertices(radius, theta, longitude_segments, lon + 1)
         IN  [raised |-> rest.raised, out |-> <<x, y, z>> \o rest.out]

\* The outer loop of the vertex pass from row lat on:
\*   for lat in range(latitude_segments + 1): theta = lat * pi / latitude_segments
\* It raises ZeroDivisionError at once when latitude_segments = 0.
RECURSIVE LatVertices(_, _, _, _)
LatVertices(radius, latitude_segments, longitude_segments, lat) ==
    IF lat >= latitude_segments + 1 THEN [raised |-> FALSE, out |-> <<>>]
    ELSE IF latitude_segments = 0 THEN [raised |-> TRUE, out |-> <<>>]
    ELSE LET theta == (lat * 180) \div latitude_segments
             row == LonVertices(radius, theta, longitude_segments, 0)
         IN  IF row.raised THEN [raised |-> TRUE, out |-> <<>>]
             ELSE LET rest == LatVertices(radius, latitude_segments,
                                          longitude_segments, lat + 1)
                  IN  [raised |-> rest.raised, out |-> row.out \o rest.out]

\* A faulty variant of CellIndices: the second triangle before the first.
CellIndicesFlipped(lat, lon, longitude_segments) ==
    LET first == lat * (longitude_segments + 1) + lon
        second == first + longitude_segments + 1
    IN  << second, second + 1, first + 1, first, second, first + 1 >>

\* A faulty variant of CellIndices: a row stride one too long.
CellIndicesOffByOne(lat, lon, longitude_segments) ==
    LET first == lat * (longitude_segments + 1) + lon
        second == first + longitude_segments + 2
    IN  << first, second, first + 1, second, second + 1, first + 1 >>

\* The six indices of one grid cell: the first triangle, then the second.
CellIndices(lat, lon, longitude_segments) ==
    LET first == lat * (longitude_segments + 1) + lon
        second == first + longitude_segments + 1
    IN  << first, second, first + 1, second, second + 1, first + 1 >>

\* A faulty variant of LonIndices: range(longitude_segments - 1), which
\* leaves out the last column of cells.
RECURSIVE LonIndicesShort(_, _, _)
LonIndicesShort(lat, longitude_segments, lon) ==
    IF lon >= longitude_segments - 1 THEN <<>>
    ELSE CellIndices(lat, lon, longitude_segments)
            \o LonIndicesShort(lat, longitude_segments, lon + 1)

\* The inner loop of the index pass: for lon in range(longitude_segments).
RECURSIVE LonIndices(_, _, _)
LonIndices(lat, longitude_segments, lon) ==
    IF lon >= longitude_segments THEN <<>>
    ELSE CellIndices(lat, lon, longitude_segments)
            \o LonIndices(lat, longitude_segments, lon + 1)

\* The outer loop of the index pass: for lat in range(latitude_segments).
RECURSIVE LatIndices(_, _, _)
LatIndices(latitude_segments, longitude_segments, lat) ==
    IF lat >= latitude_segments THEN <<>>
    ELSE LonIndices(lat, longitude_segments, 0)
            \o LatIndices(latitude_segments, longitude_segments, lat + 1)

\* generate_sphere: the (vertices, indices) pair it returns, or the
\* ZeroDivisionError that a segment count of 0 raises in the vertex pass.
generate_sphere(radius, latitude_segments, longitude_segments) ==
    LET v == LatVertices(radius, latitude_segments, longitude_segments, 0)
    IN  IF v.raised
        THEN [raised |-> TRUE, vertices |-> <<>>, indices |-> <<>>]
        ELSE [raised |-> FALSE, vertices |-> v.out,
              indices |-> LatIndices(latitude_segments, longitude_segments, 0)]

\* -------------------------------------------------------------- serializer

\* One f.write / print: fixed text, a count-prefixed array header
\* ("<name>: *<count> {"), an "a: v, v, v," line, or the console summary.
Text(s) == [tag |-> "text", text |-> s, count |-> 0, vals |-> <<>>]
ArrayHeader(name, n) == [tag |-> "array", text |-> name, count |-> n, vals |-> <<>>]
ALine(v) == [tag |-> "a", text |-> "", count |-> 0, vals |-> v]
Summary(vc, ic, tc) ==
    [tag |-> "summary", text |-> "Generated sphere", count |-> 0,
     vals |-> <<vc, ic, tc>>]

\* A float rendered by the format spec .6f: the number of millionths.
Fmt6(v) == v * 100

\* The writes of lines 50-185: the fixed header, settings, documents,
\* definitions, objects and connections blocks, and the opening of the
\* geometry block up to the Vertices array header.
HeaderBlock(vertex_count) ==
    << Text("; FBX 7.7.0 project file\n"),
       Text("; ----------------------------------------------------\n\n"),
       Text("FBXHeaderExtension:  {\n"),
       Text("    FBXHeaderVersion: 1003\n"),
       Text("    FBXVersion: 7700\n"),
       Text("    CreationTimeStamp:  {\n"),
       Text("        Version: 1000\n"),
       Text("        Year: 2024\n"),
       Text("        Month: 1\n"),
       Text("        Day: 1\n"),
       Text("        Hour: 0\n"),
       Text("        Minute: 0\n"),
       Text("        Second: 0\n"),
       Text("        Millisecond: 0\n"),
       Text("    }\n"),
       Text("    Creator: \"UnitSphere Generator\"\n"),
       Text("    OtherFlags:  {\n"),
       Text("        FlagPLE: 0\n"),
       Text("    }\n"),
       Text("}\n\n"),
       Text("GlobalSettings:  {\n"),
       Text("    Version: 1000\n"),
       Text("    Properties70:  {\n"),
       Text("        P: \"UpAxis\", \"int\", \"Integer\", \"\",1\n"),
       Text("        P: \"UpAxisSign\", \"int\", \"Integer\", \"\",1\n"),
       Text("        P: \"FrontAxis\", \"int\", \"Integer\", \"\",2\n"),
       Text("        P: \"FrontAxisSign\", \"int\", \"Integer\", \"\",1\n"),
       Text("        P: \"CoordAxis\", \"int\", \"Integer\", \"\",0\n"),
       Text("        P: \"CoordAxisSign\", \"int\", \"Integer\", \"\",1\n"),
       Text("        P: \"OriginalUpAxis\", \"int\", \"Integer\", \"\",1\n"),
       Text("        P: \"OriginalUpAxisSign\", \"int\", \"Integer\", \"\",1\n"),
       Text("        P: \"UnitScaleFactor\", \"double\", \"Number\", \"\",1\n"),
       Text("        P: \"OriginalUnitScaleFactor\", \"double\", \"Number\", \"\",1\n"),
       Text("        P: \"AmbientColor\", \"ColorRGB\", \"Color\", \"\",0.4,0.4,0.4\n"),
       Text("        P: \"DefaultCamera\", \"KString\", \"\", \"\", \"Producer Perspective\"\n"),
       Text("        P: \"TimeMode\", \"enum\", \"\", \"\",6\n"),
       Text("        P: \"TimeProtocol\", \"enum\", \"\", \"\",2\n"),
       Text("        P: \"SnapOnFrameMode\", \"enum\", \"\", \"\",0\n"),
       Text("        P: \"TimeSpanStart\", \"KTime\", \"Time\", \"\",0\n"),
       Text("        P: \"TimeSpanStop\", \"KTime\", \"Time\", \"\",153953860000\n"),
       Text("        P: \"CustomFrameRate\", \"double\", \"Number\", \"\",-1\n"),
       Text("        P: \"TimeMarker\", \"Compound\", \"\", \"\"\n"),
       Text("        P: \"CurrentTimeMarker\", \"int\", \"Integer\", \"\",-1\n"),
       Text("    }\n"),
       Text("}\n\n"),
       Text("Documents:  {\n"),
       Text("    Count: 1\n"),
       Text("    Document: *1 {\n"),
       Text("        \"Document::UnitSphere\", \"Scene\"\n"),
       Text("        Properties70:  {\n"),
       Text("            P: \"SourceObject\", \"object\", \"\", \"\"\n"),
       Text("            P: \"ActiveAnimStackName\", \"KString\", \"\", \"\", \"\"\n"),
       Text("        }\n"),
       Text("        RootNode: 0\n"),
       Text("    }\n"),
       Text("}\n\n"),
       Text("References:  {\n"),
       Text("}\n\n"),
       Text("Definitions:  {\n"),
       Text("    Version: 100\n"),
       Text("    Count: 2\n"),
       Text("    ObjectType: \"GlobalSettings\" {\n"),
       Text("        Count: 1\n"),
       Text("    }\n"),
       Text("    ObjectType: \"Model\" {\n"),
       Text("        Count: 1\n"),
       Text("        PropertyTemplate: \"FbxNode\" {\n"),
       Text("            Properties70:  {\n"),
       Text("                P: \"DefaultAttributeIndex\", \"int\", \"Integer\", \"\",0\n"),
       Text("                P: \"DefaultAttributeIndex\", \"int\", \"Integer\", \"\",0\n"),
       Text("            }\n"),
       Text("        }\n"),
       Text("    }\n"),
       Text("}\n\n"),
       Text("Objects:  {\n"),
       Text("    GlobalSettings: *0 {\n"),
       Text("        Version: 1000\n"),
       Text("        Properties70:  {\n"),
       Text("            P: \"UpAxis\", \"int\", \"Integer\", \"\",1\n"),
       Text("            P: \"UpAxisSign\", \"int\", \"Integer\", \"\",1\n"),
       Text("            P: \"FrontAxis\", \"int\", \"Integer\", \"\",2\n"),
       Text("            P: \"FrontAxisSign\", \"int\", \"Integer\", \"\",1\n"),
       Text("            P: \"CoordAxis\", \"int\", \"Integer\", \"\",0\n"),
       Text("            P: \"CoordAxisSign\", \"int\", \"Integer\", \"\",1\n"),
       Text("            P: \"OriginalUpAxis\", \"int\", \"Integer\", \"\",1\n"),
       Text("            P: \"OriginalUpAxisSign\", \"int\", \"Integer\", \"\",1\n"),
       Text("            P: \"UnitScaleFactor\", \"double\", \"Number\", \"\",1\n"),
       Text("            P: \"OriginalUnitScaleFactor\", \"double\", \"Number\", \"\",1\n"),
       Text("            P: \"AmbientColor\", \"ColorRGB\", \"Color\", \"\",0.4,0.4,0.4\n"),
       Text("            P: \"DefaultCamera\", \"KString\", \"\", \"\", \"Producer Perspective\"\n"),
       Text("            P: \"TimeMode\", \"enum\", \"\", \"\",6\n"),
       Text("            P: \"TimeProtocol\", \"enum\", \"\", \"\",2\n"),
       Text("            P: \"SnapOnFrameMode\", \"enum\", \"\", \"\",0\n"),
       Text("            P: \"TimeSpanStart\", \"KTime\", \"Time\", \"\",0\n"),
       Text("            P: \"TimeSpanStop\", \"KTime\", \"Time\", \"\",153953860000\n"),
       Text("            P: \"CustomFrameRate\", \"double\", \"Number\", \"\",-1\n"),
       Text("            P: \"TimeMarker\", \"Compound\", \"\", \"\"\n"),
       Text("            P: \"CurrentTimeMarker\", \"int\", \"Integer\", \"\",-1\n"),
       Text("        }\n"),
       Text("    }\n"),
       Text("    Model: \"Model::UnitSphere\", \"Mesh\" {\n"),
       Text("        Version: 232\n"),
       Text("        Properties70:  {\n"),
       Text("            P: \"DefaultAttributeIndex\", \"int\", \"Integer\", \"\",0\n"),
       Text("            P: \"DefaultAttributeIndex\", \"int\", \"Integer\", \"\",0\n"),
       Text("        }\n"),
       Text("        MultiLayer: 0\n"),
       Text("        MultiTake: 0\n"),
       Text("        Shading: Y\n"),
       Text("        Culling: \"CullingOff\"\n"),
       Text("    }\n"),
       Text("}\n\n"),
       Text("Connections:  {\n"),
       Text("    C: \"OO\",0,1\n"),
       Text("}\n\n"),
       Text("Geometry: \"Geometry::UnitSphere\" {\n"),
       Text("    Properties70:  {\n"),
       Text("        P: \"Color\", \"ColorRGB\", \"Color\", \"\",0.8,0.8,0.8\n"),
       Text("    }\n"),
       ArrayHeader("Vertices", vertex_count) >>

\* The writes of lines 188-189: the end of Vertices and the
\* PolygonVertexIndex array header.
IndexHeaderBlock(index_count) ==
    << Text("    }\n"),
       ArrayHeader("PolygonVertexIndex", index_count) >>

\* The writes of lines 192-197: the end of PolygonVertexIndex, the empty
\* Edges array, the geometry version and the Normals array header.
NormalsHeaderBlock(vertex_count) ==
    << Text("    }\n"),
       ArrayHeader("Edges", 0),
       Text("    }\n"),
       Text("    GeometryVersion: 124\n"),
       Text("    LayerElementNormal: 0 {\n"),
       ArrayHeader("Normals", vertex_count) >>

\* The writes of lines 205-207: the closing braces.
FooterBlock ==
    << Text("        }\n"),
       Text("    }\n"),
       Text("}\n") >>

\* ------------------------------------------------------------------- state

VARIABLES
    script,              \* which of the two scripts runs
    radius,              \* the arguments of the generate_sphere call
    latitude_segments,
    longitude_segments,
    pc,                  \* the statement the script is at
    i,                   \* the index within the block or loop being written
    returned,            \* generate_sphere has returned its result
    vertices,            \* the flat coordinate list it returned
    indices,             \* the flat index list it returned
    console,             \* what has been printed to standard output
    sink,                \* the output file: "unopened", "open" or "closed"
    opens,               \* the number of open() calls made
    file,                \* the writes the file holds, in order
    divisors,            \* every length a coordinate has been divided by
    error                \* the exception that ended the run, or "none"

vars == << script, radius, latitude_segments, longitude_segments, pc, i,
           returned, vertices, indices, console, sink, opens, file,
           divisors, error >>

params == << script, radius, latitude_segments, longitude_segments >>

Scripts == {"create_sphere_fbx", "generate_sphere"}

\* A faulty variant of vertex_count: the number of coordinates.
vertex_count_flat == Len(vertices)

\* Lines 41-43: the counts derived from the returned lists.
vertex_count == Len(vertices) \div 3
index_count == Len(indices)
triangle_count == index_count \div 3

\* The body of the vertex loop (187) and of generate_sphere.py's two float
\* loops (48, 62): one line holding vertices[k], vertices[k+1], vertices[k+2].
VertexLine(k) ==
    ALine(<< Fmt6(vertices[k + 1]), Fmt6(vertices[k + 2]), Fmt6(vertices[k + 3]) >>)

\* The body of the index loop (191, and 55): indices[k], indices[k+1], indices[k+2].
IndexLine(k) == ALine(<< indices[k + 1], indices[k + 2], indices[k + 3] >>)

\* x/length, y/length, z/length (203): a float division by 0.0 raises
\* ZeroDivisionError.
Divide(x, y, z, length) ==
    IF length = 0
    THEN [raised |-> TRUE, divided |-> TRUE, length |-> length, vals |-> << x, y, z >>]
    ELSE [raised |-> FALSE, divided |-> TRUE, length |-> length,
          vals |-> << FDiv(x, length), FDiv(y, length), FDiv(z, length) >>]

\* A faulty variant of NormalOf: the guard admits a length of 0.
NormalOfUnguarded(x, y, z) ==
    LET length == Length(x, y, z)
    IN  IF length >= 0
        THEN Divide(x, y, z, length)
        ELSE [raised |-> FALSE, divided |-> FALSE, length |-> length,
              vals |-> << x, y, z >>]

\* Lines 200-203: the normal of the vertex (x, y, z); the division is made
\* only when the length is positive.
NormalOf(x, y, z) ==
    LET length == Length(x, y, z)
    IN  IF length > 0
        THEN Divide(x, y, z, length)
        ELSE [raised |-> FALSE, divided |-> FALSE, length |-> length,
              vals |-> << x, y, z >>]

\* Line 204: the line written for a normal.
NormalLine(n) == ALine(<< Fmt6(n.vals[1]), Fmt6(n.vals[2]), Fmt6(n.vals[3]) >>)

\* The fixed block written at each block statement of create_sphere_fbx.py.
Block(p) ==
    CASE p = "header" -> HeaderBlock(vertex_count)
      [] p = "index_header" -> IndexHeaderBlock(index_count)
      [] p = "normals_header" -> NormalsHeaderBlock(vertex_count)
      [] p = "footer" -> FooterBlock

BlockPhases == {"header", "index_header", "normals_header", "footer"}

\* Where control goes once the block or loop at p is finished: a loop
\* for k in range(0, len(list), 3) over an empty list is skipped.
After(p) ==
    CASE p = "header" -> IF Len(vertices) > 0 THEN "vertices" ELSE "index_header"
      [] p = "vertices" -> "index_header"
      [] p = "index_header" -> IF Len(indices) > 0 THEN "indices" ELSE "normals_header"
      [] p = "indices" -> "normals_header"
      [] p = "normals_header" -> IF Len(vertices) > 0 THEN "normals" ELSE "footer"
      [] p = "normals" -> "footer"
      [] p = "footer" -> "close"

\* A faulty variant of SinkAfterFailure: the file opened without a with
\* block stays open when a write raises.
SinkLeakedOnFailure == "open"

\* The state of the sink once an exception has left the with block (48).
SinkAfterFailure == "closed"

\* One f.write(line): it succeeds and control moves on to (next_pc, next_i),
\* or it raises OSError, which leaves the with block (closing the file) and
\* ends the script.
Write(line, next_pc, next_i) ==
    \E ok \in BOOLEAN :
        IF ok
        THEN /\ file' = Append(file, line)
             /\ pc' = next_pc
             /\ i' = next_i
             /\ UNCHANGED << sink, error >>
        ELSE /\ sink' = SinkAfterFailure
             /\ pc' = "failed"
             /\ error' = "OSError"
             /\ UNCHANGED << file, i >>

\* ----------------------------------------------------------------- actions

Init ==
    /\ script \in Scripts
    /\ radius \in Radii
    /\ latitude_segments \in LatSegments
    /\ longitude_segments \in LonSegments
    /\ pc = "generate"
    /\ i = 0
    /\ returned = FALSE
    /\ vertices = <<>>
    /\ indices = <<>>
    /\ console = <<>>
    /\ sink = "unopened"
    /\ opens = 0
    /\ file = <<>>
    /\ divisors = {}
    /\ error = "none"

\* Line 40: vertices, indices = generate_sphere(...).
GenerateSphere ==
    /\ pc = "generate"
    /\ LET g == generate_sphere(radius, latitude_segments, longitude_segments)
       IN  IF g.raised
           THEN /\ pc' = "failed"
                /\ error' = "ZeroDivisionError"
                /\ UNCHANGED << returned, vertices, indices >>
           ELSE /\ pc' = "summary"
                /\ returned' = TRUE
                /\ vertices' = g.vertices
                /\ indices' = g.indices
                /\ UNCHANGED error
    /\ UNCHANGED << params, i, console, sink, opens, file, divisors >>

\* Line 45 (42 in generate_sphere.py): the console summary.
PrintSummary ==
    /\ pc = "summary"
    /\ console' = Append(console, Summary(vertex_count, index_count, triangle_count))
    /\ pc' = IF script = "create_sphere_fbx" THEN "open" ELSE "print_arrays"
    /\ UNCHANGED << params, i, returned, vertices, indices, sink, opens, file,
                    divisors, error >>

\* Line 48: open('assets/UnitSphere.fbx', 'w'), which may raise OSError.
OpenSink ==
    /\ pc = "open"
    /\ opens' = opens + 1
    /\ \E ok \in BOOLEAN :
        IF ok
        THEN /\ sink' = "open"
             /\ file' = <<>>
             /\ pc' = "header"
             /\ i' = 0
             /\ UNCHANGED error
        ELSE /\ pc' = "failed"
             /\ error' = "OSError"
             /\ UNCHANGED << sink, file, i >>
    /\ UNCHANGED << params, returned, vertices, indices, console, divisors >>

\* Lines 50-185, 188-189, 192-197, 205-207: the next write of a fixed block.
WriteBlock ==
    /\ pc \in BlockPhases
    /\ sink = "open"
    /\ IF i + 1 = Len(Block(pc))
       THEN Write(Block(pc)[i + 1], After(pc), 0)
       ELSE Write(Block(pc)[i + 1], pc, i + 1)
    /\ UNCHANGED << params, returned, vertices, indices, console, opens, divisors >>

\* Lines 186-187: for i in range(0, len(vertices), 3): f.write(...).
WriteVertex ==
    /\ pc = "vertices"
    /\ sink = "open"
    /\ IF i + 3 >= Len(vertices)
       THEN Write(VertexLine(i), After(pc), 0)
       ELSE Write(VertexLine(i), pc, i + 3)
    /\ UNCHANGED << params, returned, vertices, indices, console, opens, divisors >>

\* Lines 190-191: for i in range(0, len(indices), 3): f.write(...).
WriteIndex ==
    /\ pc = "indices"
    /\ sink = "open"
    /\ IF i + 3 >= Len(indices)
       THEN Write(IndexLine(i), After(pc), 0)
       ELSE Write(IndexLine(i), pc, i + 3)
    /\ UNCHANGED << params, returned, vertices, indices, console, opens, divisors >>

\* Lines 198-204: one pass of the normals loop: normalise, then write.
WriteNormal ==
    /\ pc = "normals"
    /\ sink = "open"
    /\ LET n == NormalOf(vertices[i + 1], vertices[i + 2], vertices[i + 3])
       IN  /\ divisors' = IF n.divided THEN divisors \cup {n.length} ELSE divisors
           /\ IF n.raised
              THEN /\ sink' = SinkAfterFailure
                   /\ pc' = "failed"
                   /\ error' = "ZeroDivisionError"
                   /\ UNCHANGED << file, i >>
              ELSE IF i + 3 >= Len(vertices)
                   THEN Write(NormalLine(n), After(pc), 0)
                   ELSE Write(NormalLine(n), pc, i + 3)
    /\ UNCHANGED << params, returned, vertices, indices, console, opens >>

\* Line 48, leaving the with block normally: the file is closed.
CloseSink ==
    /\ pc = "close"
    /\ sink = "open"
    /\ sink' = "closed"
    /\ pc' = "confirm"
    /\ UNCHANGED << params, i, returned, vertices, indices, console, opens, file,
                    divisors, error >>

\* Line 209: the completion confirmation.
PrintConfirmation ==
    /\ pc = "confirm"
    /\ console' = Append(console, Text("UnitSphere.fbx created successfully!\n"))
    /\ pc' = "done"
    /\ UNCHANGED << params, i, returned, vertices, indices, sink, opens, file,
                    divisors, error >>

\* generate_sphere.py, lines 45-63: everything it prints after the summary.
RECURSIVE VertexLines(_)
VertexLines(k) ==
    IF k >= Len(vertices) THEN <<>> ELSE << VertexLine(k) >> \o VertexLines(k + 3)

RECURSIVE IndexLines(_)
IndexLines(k) ==
    IF k >= Len(indices) THEN <<>> ELSE << IndexLine(k) >> \o IndexLines(k + 3)

StdoutArrays ==
    << Text("\nVertices:\n"), ArrayHeader("Vertices", Len(vertices) \div 3) >>
        \o VertexLines(0)
        \o << Text("}\n"), Text("\nPolygonVertexIndex:\n"),
              ArrayHeader("PolygonVertexIndex", Len(indices)) >>
        \o IndexLines(0)
        \o << Text("}\n"), Text("\nNormals:\n"),
              ArrayHeader("Normals", Len(vertices) \div 3) >>
        \o VertexLines(0)
        \o << Text("}\n") >>

PrintArrays ==
    /\ pc = "print_arrays"
    /\ console' = console \o StdoutArrays
    /\ pc' = "done"
    /\ UNCHANGED << params, i, returned, vertices, indices, sink, opens, file,
                    divisors, error >>

Next ==
    \/ GenerateSphere
    \/ PrintSummary
    \/ OpenSink
    \/ WriteBlock
    \/ WriteVertex
    \/ WriteIndex
    \/ WriteNormal
    \/ CloseSink
    \/ PrintConfirmation
    \/ PrintArrays

Spec == Init /\ [][Next]_vars

\* ------------------------------------------------------------------ claims

Valid == latitude_segments >= 1 /\ longitude_segments >= 1

\* The number of grid samples (L+1)*(N+1).
GridVertices == (latitude_segments + 1) * (longitude_segments + 1)

\* The two output documents: the file and standard output.
Documents == { file, console }

\* The array headers of a document whose block has been ended by a line
\* that is not an "a:" line, and the "a:" lines of such a block.
ClosedArrays(doc) ==
    { h \in 1..Len(doc) :
        doc[h].tag = "array" /\ \E j \in (h + 1)..Len(doc) : doc[j].tag # "a" }

BlockEnd(doc, h) ==
    CHOOSE j \in (h + 1)..Len(doc) :
        doc[j].tag # "a" /\ \A k \in (h + 1)..(j - 1) : doc[k].tag = "a"

ALineCount(doc, h) == BlockEnd(doc, h) - h - 1

RECURSIVE ValuesBetween(_, _, _)
ValuesBetween(doc, from, to) ==
    IF from > to THEN 0 ELSE Len(doc[from].vals) + ValuesBetween(doc, from + 1, to)

ValueCount(doc, h) == ValuesBetween(doc, h + 1, BlockEnd(doc, h) - 1)

\* C1: for L >= 1 and N >= 1 generate_sphere returns (L+1)*(N+1) vertices,
\* that is 3*(L+1)*(N+1) coordinates, and L*N*6 indices.
C1_Counts ==
    (returned /\ Valid) =>
        /\ Len(vertices) = 3 * GridVertices
        /\ Len(vertices) \div 3 = GridVertices
        /\ Len(indices) = latitude_segments * longitude_segments * 6

C1_Witness ==
    returned /\ latitude_segments >= 2 /\ longitude_segments >= 3 /\ pc = "summary"

\* C2: for L >= 1 and N >= 1 every emitted index lies in [0, vertex_count),
\* vertex_count = (L+1)*(N+1) being the number of vertices returned; the
\* largest one is second+1 of the last cell and is at most vertex_count - 1.
C2_IndicesInRange ==
    (returned /\ Valid) =>
        /\ \A k \in 1..Len(indices) :
              /\ indices[k] \in 0..(GridVertices - 1)
              /\ indices[k] < Len(vertices) \div 3
              /\ indices[k] <= indices[Len(indices) - 1]
        /\ indices[Len(indices) - 1] <= GridVertices - 1

C2_Witness ==
    /\ returned /\ Valid
    /\ \E k \in 1..Len(indices) : indices[k] = GridVertices - 1
    /\ \E k \in 1..Len(indices) : indices[k] = 0

\* C3: the index list is the concatenation over lat = 0..L-1 (outer) and
\* lon = 0..N-1 (inner) of (first, second, first+1, second, second+1,
\* first+1), first = lat*(N+1)+lon, second = first+N+1: cell k = lat*N+lon
\* occupies positions 6k..6k+5.
C3_IndexOrder ==
    returned =>
        /\ Len(indices) = IF Valid THEN 6 * latitude_segments * longitude_segments
                          ELSE 0
        /\ \A lat \in 0..(latitude_segments - 1) :
           \A lon \in 0..(longitude_segments - 1) :
              LET k == lat * longitude_segments + lon
                  first == lat * (longitude_segments + 1) + lon
                  second == first + longitude_segments + 1
              IN  /\ indices[6 * k + 1] = first
                  /\ indices[6 * k + 2] = second
                  /\ indices[6 * k + 3] = first + 1
                  /\ indices[6 * k + 4] = second
                  /\ indices[6 * k + 5] = second + 1
                  /\ indices[6 * k + 6] = first + 1

C3_Witness ==
    /\ returned
    /\ latitude_segments >= 2 /\ longitude_segments >= 2
    /\ Len(indices) >= 24
    /\ indices[1] = 0 /\ indices[2] = longitude_segments + 1 /\ indices[3] = 1

\* C4 as stated: for L >= 1 and N >= 1 the count declared by each of the
\* Vertices, PolygonVertexIndex and Normals headers equals the number of
\* "a:" lines in its block.
C4_CountEqualsLines ==
    Valid =>
        \A doc \in Documents : \A h \in ClosedArrays(doc) :
            doc[h].text \in {"Vertices", "PolygonVertexIndex", "Normals"}
                => doc[h].count = ALineCount(doc, h)

\* C4 amended: the Vertices and Normals headers declare the number of "a:"
\* lines of their blocks; the PolygonVertexIndex header declares the number
\* of indices, three times the number of "a:" lines of its block.
C4_CountsPerArray ==
    Valid =>
        \A doc \in Documents : \A h \in ClosedArrays(doc) :
            /\ doc[h].text \in {"Vertices", "Normals"}
                  => doc[h].count = ALineCount(doc, h)
            /\ doc[h].text = "PolygonVertexIndex"
                  => doc[h].count = 3 * ALineCount(doc, h)

C4_Witness ==
    /\ Valid /\ pc = "done" /\ script = "create_sphere_fbx"
    /\ \E h \in ClosedArrays(file) :
          file[h].text = "PolygonVertexIndex" /\ ALineCount(file, h) > 0
    /\ \E h \in ClosedArrays(file) :
          file[h].text = "Normals" /\ ALineCount(file, h) > 0

\* C5: every count-prefixed array of the written document (Vertices,
\* PolygonVertexIndex, Edges, Normals) declares the number of individual
\* values that follow it in its block.
C5_CountEqualsValues ==
    \A h \in ClosedArrays(file) : file[h].count = ValueCount(file, h)

\* C6: called with radius <= 0, latitude_segments <= 0 or
\* longitude_segments <= 0, generate_sphere fails and never returns a result.
C6_InvalidParametersFail ==
    (radius <= 0 \/ latitude_segments <= 0 \/ longitude_segments <= 0)
        => ~returned

\* C7: a coordinate is divided by a vertex length only when that length is
\* strictly positive; with radius = 0, L >= 1 and N >= 1 every vertex is the
\* origin, no division is made or faults, and every normal written is zero.
C7_NoDivisionByZero ==
    /\ \A d \in divisors : d > 0
    /\ (radius = 0 /\ Valid /\ returned) =>
          /\ \A k \in 1..Len(vertices) : vertices[k] = 0
          /\ divisors = {}
          /\ error # "ZeroDivisionError"
          /\ \A h \in 1..Len(file) :
                (file[h].tag = "array" /\ file[h].text = "Normals") =>
                    \A j \in (h + 1)..Len(file) :
                        file[j].tag = "a" => file[j].vals = << 0, 0, 0 >>

C7_Witness ==
    /\ radius = 0 /\ Valid /\ pc = "done" /\ script = "create_sphere_fbx"
    /\ \E h \in ClosedArrays(file) :
          file[h].text = "Normals" /\ ALineCount(file, h) = GridVertices

\* The whole document create_sphere_fbx.py writes for the returned mesh.
RECURSIVE NormalLines(_)
NormalLines(k) ==
    IF k >= Len(vertices) THEN <<>>
    ELSE << NormalLine(NormalOf(vertices[k + 1], vertices[k + 2], vertices[k + 3])) >>
            \o NormalLines(k + 3)

WholeDocument ==
    HeaderBlock(vertex_count) \o VertexLines(0)
        \o IndexHeaderBlock(index_count) \o IndexLines(0)
        \o NormalsHeaderBlock(vertex_count) \o NormalLines(0)
        \o FooterBlock

Confirmed ==
    \E k \in 1..Len(console) :
        console[k] = Text("UnitSphere.fbx created successfully!\n")

\* C9: in create_sphere_fbx the sink is opened at most once and only after
\* generation and the console summary; what it holds is always a front part
\* of the document; once the run has ended an opened sink is closed, after
\* success and after a failed write alike; the confirmation is printed only
\* after every write has succeeded and the sink is closed, and never when
\* opening or writing has failed.
C9_SinkLifecycle ==
    script = "create_sphere_fbx" =>
        /\ opens <= 1
        /\ opens = 1 => (returned /\ Len(console) >= 1 /\ console[1].tag = "summary")
        /\ sink # "unopened" => opens = 1
        /\ Len(file) > 0 => sink # "unopened"
        /\ file = SubSeq(WholeDocument, 1, Len(file))
        /\ pc \in {"done", "failed", "confirm"} => sink # "open"
        /\ Confirmed =>
              /\ error = "none"
              /\ sink = "closed"
              /\ file = WholeDocument
        /\ error # "none" => (~Confirmed /\ pc = "failed")

C9_Witness ==
    /\ script = "create_sphere_fbx"
    /\ pc = "failed" /\ error = "OSError" /\ sink = "closed"
    /\ Len(file) > Len(HeaderBlock(vertex_count))
    /\ Len(file) < Len(WholeDocument)

\* C10: for L >= 1 and N >= 1 every vertex index in [0, (L+1)*(N+1)) occurs
\* in the index list, and the three indices of every triangle are pairwise
\* distinct.
C10_AllVerticesReferenced ==
    (returned /\ Valid) =>
        /\ \A v \in 0..(GridVertices - 1) : \E k \in 1..Len(indices) : indices[k] = v
        /\ \A t \in 0..((Len(indices) \div 3) - 1) :
              /\ indices[3 * t + 1] # indices[3 * t + 2]
              /\ indices[3 * t + 2] # indices[3 * t + 3]
              /\ indices[3 * t + 1] # indices[3 * t + 3]

C10_Witness ==
    /\ returned /\ Valid
    /\ Len(indices) >= 12
    /\ \E k \in 1..Len(indices) : indices[k] = longitude_segments
    /\ \E k \in 1..Len(indices) : indices[k] = latitude_segments * (longitude_segments + 1)

====
